---- MODULE Spec2Model ----
(***************************************************************************)
(* Model of mm.c: a boundary-tag allocator with an explicit doubly linked  *)
(* free list, best-fit search, splitting, coalescing and an in-place       *)
(* realloc, running on top of an sbrk-style heap provider.                 *)
(*                                                                         *)
(* Addresses are byte offsets from the heap base 0x800000000 (the value    *)
(* ptr_address ORs into every link).  The heap is an array of 4-byte words *)
(* (word_t); mem maps every word-aligned offset of the provider's region   *)
(* to the value of the word stored there.  Every C function of mm.c is an  *)
(* operator from a heap record (the globals plus memory) to a heap record. *)
(* A call that dereferences an address outside the region, or that never   *)
(* leaves a loop, does not return: the record's status says so.            *)
(***************************************************************************)
EXTENDS Integers, Sequences, FiniteSets, Bags, TLC

(* ---------------- bounds of the model ---------------------------------- *)

\* Bytes the provider hands out before mem_sbrk starts to refuse.
MaxBrkUnits == 5
\* Mapped words past the provider's limit (the region is mapped in pages).
SlackWords == 4
\* Iterations after which a list traversal is known to be cyclic.
Fuel == 12
\* Calls a program makes: Spec, and SpecLong.
MaxCalls == 4
LongCalls == 8

(* ---------------- program constants ------------------------------------ *)

W == 4
ALIGNMENT == 16
FREE == 0
USED == 1
PREVFREE == 2
\* mm_init asks the provider for 8 words.
InitBytes == 8 * W

\* The C null pointer; as an offset from the heap base it lies below every
\* mapped address, and so does every address computed from it.
NULL == -1048576

MaxBrk == InitBytes + MaxBrkUnits * ALIGNMENT
MemBytes == MaxBrk + SlackWords * W
WordAddrs == {a \in 0..(MemBytes - W) : a % W = 0}

\* A size_t is a residue modulo 2^64, named here by its representative in
\* -2^63 .. 2^63 - 1: SIZE_MAX, 2^64 - 1, is -1, and a sum that stays within
\* that range is the sum modulo 2^64.
SIZE_MAX == -1

\* Request sizes handed to malloc, realloc.  blksz(SIZE_MAX - 3) is 0.
Sizes == {0, 12, 26, SIZE_MAX - 3}
LongSizes == {12, 26}
\* Values a program stores in the payload it owns.
DataVals == {24}
\* Content of provider memory the allocator has never written.
UninitVals == {0, 16}

(* ---------------- memory ----------------------------------------------- *)

\* One C statement after another: v is what the statement leaves, rest the
\* statements that follow, which name it.
Do(v, rest(_)) == rest(v)

Valid(a) == a \in WordAddrs

Segv(h) == [h EXCEPT !.status = "segv"]
Hang(h) == [h EXCEPT !.status = "loop"]
Running(h) == h.status = "run"

\* A read of the word at a: the call dies when a is not mapped.
Chk(h, a) == IF Running(h) /\ ~Valid(a) THEN Segv(h) ELSE h
Load(h, a) == IF Valid(a) THEN h.mem[a] ELSE 0
Store(h, a, v) ==
  IF ~Running(h) THEN h
  ELSE IF Valid(a) THEN [h EXCEPT !.mem[a] = v]
  ELSE Segv(h)

\* x & ~y and x | y for a flag y that is a single bit.
HasBit(x, bit) == (x \div bit) % 2 = 1
ClrBit(x, bit) == IF HasBit(x, bit) THEN x - bit ELSE x
SetBit(x, bit) == IF HasBit(x, bit) THEN x ELSE x + bit

(* ---------------- boundary tag handling -------------------------------- *)

TagSize(w) == ClrBit(ClrBit(w, USED), PREVFREE)
bt_size(h, bt) == TagSize(Load(h, bt))
bt_used(h, bt) == HasBit(Load(h, bt), USED)
bt_free(h, bt) == ~HasBit(Load(h, bt), USED)
bt_footer(h, bt) == bt + bt_size(h, bt) - W
bt_fromptr(ptr) == ptr - W
bt_get_prevfree(h, bt) == IF HasBit(Load(h, bt), PREVFREE) THEN PREVFREE ELSE 0
bt_clr_prevfree(h, bt) ==
  IF bt = NULL THEN h ELSE Store(Chk(h, bt), bt, ClrBit(Load(h, bt), PREVFREE))
bt_set_prevfree(h, bt) == Store(Chk(h, bt), bt, SetBit(Load(h, bt), PREVFREE))
bt_payload(bt) == bt + W

bt_next(h, bt) ==
  LET ptr == bt + bt_size(h, bt)
  IN IF ptr <= h.heap_end THEN ptr ELSE NULL

bt_prev(h, bt) ==
  LET ptr == bt - bt_size(h, bt - W)
  IN IF ptr >= h.heap_start THEN ptr ELSE NULL

bt_make(h, bt, size, flags) ==
  Do(Store(h, bt, size + flags), LAMBDA h1 :
  Do(bt_clr_prevfree(h1, bt_next(h1, bt)), LAMBDA h2 :
  IF bt_free(h2, bt)
  THEN Do(Store(h2, bt_footer(h2, bt), size + flags), LAMBDA h3 :
       bt_set_prevfree(h3, bt_next(h3, bt)))
  ELSE h2))

(* ---------------- list management -------------------------------------- *)

\* (word_t *)(0x800000000 | toadd), as an offset from 0x800000000.
ptr_address(toadd) == IF toadd >= 0 THEN toadd ELSE NULL
\* (int)((unsigned long)bt - 0x800000000); the low 32 bits of -0x800000000
\* are 0.
ptr_size(bt) == IF bt = NULL THEN 0 ELSE bt
ptr_next(h, bt) == ptr_address(Load(h, bt + W))
ptr_prev(h, bt) == ptr_address(Load(h, bt + 2 * W))
list_set_prev(h, block, val) == Store(h, block + 2 * W, ptr_size(val))
list_set_next(h, block, val) == Store(h, block + W, ptr_size(val))
list_clr_prev(h, block) == Store(h, block + 2 * W, 0)
list_clr_next(h, block) == Store(h, block + W, 0)

list_add(h, block) ==
  IF h.list_start = NULL
  THEN Do([h EXCEPT !.list_start = block, !.list_end = block], LAMBDA h1 :
       Do(list_clr_next(h1, h1.list_start), LAMBDA h2 :
       list_clr_prev(h2, h2.list_end)))
  ELSE Do(list_set_next(h, block, h.list_start), LAMBDA h1 :
       Do(list_set_prev(h1, h1.list_start, block), LAMBDA h2 :
       Do(list_clr_prev(h2, block), LAMBDA h3 :
       [h3 EXCEPT !.list_start = block])))

list_remove(h, block) ==
  IF h.list_start = block /\ h.list_end = block
  THEN [h EXCEPT !.list_start = NULL, !.list_end = NULL]
  ELSE IF h.list_start = block
  THEN Do(Chk(h, h.list_start + W), LAMBDA h0 :
       Do([h0 EXCEPT !.list_start = ptr_next(h0, h0.list_start)], LAMBDA h1 :
       list_clr_prev(h1, h1.list_start)))
  ELSE IF h.list_end = block
  THEN Do(Chk(h, h.list_end + 2 * W), LAMBDA h0 :
       Do([h0 EXCEPT !.list_end = ptr_prev(h0, h0.list_end)], LAMBDA h1 :
       list_clr_next(h1, h1.list_end)))
  ELSE Do(Chk(Chk(h, block + 2 * W), block + W), LAMBDA h0 :
       Do(ptr_prev(h0, block), LAMBDA prev :
       Do(ptr_next(h0, block), LAMBDA next :
       Do(list_set_next(h0, prev, next), LAMBDA h1 :
       list_set_prev(h1, next, prev)))))

(* ---------------- miscellanous procedures ------------------------------ *)

round_up(size) == ((size + ALIGNMENT - 1) \div ALIGNMENT) * ALIGNMENT
blksz(size) == round_up(size + W)

\* last, the global that morecore sets to the old heap_end and returns, is
\* read nowhere else: it is a local of morecore here.  morecore reads and
\* writes the epilogue and moves heap_end before it looks at what mem_sbrk
\* returned.
\* The provider: mem_sbrk(incr) returns the old break and moves it, or
\* returns (void *)-1 and leaves it when the region is exhausted.
SbrkFails(h, incr) == h.brk + incr > MaxBrk
mem_sbrk(h, incr) == IF SbrkFails(h, incr) THEN h ELSE [h EXCEPT !.brk = h.brk + incr]

morecore(h, size) ==
  Do(mem_sbrk(h, size), LAMBDA h1 :
  Do(h1.heap_end, LAMBDA last :
  Do(Chk(h1, h1.heap_end), LAMBDA h2 :
  Do(Load(h2, h2.heap_end), LAMBDA epilogue :
  Do([h2 EXCEPT !.heap_end = h2.heap_end + size], LAMBDA h3 :
  Do(Store(h3, h3.heap_end, epilogue), LAMBDA h4 :
  [h |-> h4, ret |-> IF SbrkFails(h, size) THEN NULL ELSE last]))))))

(* ---------------- memcpy, memset --------------------------------------- *)

\* The low r bytes of word srcw over word dstw (x86-64 is little endian).
Splice(dstw, srcw, r) ==
  IF r = 0 THEN srcw
  ELSE LET m == IF r = 1 THEN 256 ELSE IF r = 2 THEN 65536 ELSE 16777216
       IN (srcw % m) + (dstw - (dstw % m))

\* Copy the word at offset 4*i of an n-byte copy; the last word is partial
\* when n is not a multiple of the word size.
copy_word(h, dst, src, n, i) ==
  Do(IF 4 * i + 4 > n THEN n - 4 * i ELSE 0, LAMBDA r :
  Do(Chk(Chk(h, src + 4 * i), dst + 4 * i), LAMBDA h0 :
  Store(h0, dst + 4 * i, Splice(Load(h0, dst + 4 * i), Load(h0, src + 4 * i), r))))

RECURSIVE copy_loop(_, _, _, _, _, _)
copy_loop(h, dst, src, n, dir, j) ==
  IF j >= (n + 3) \div 4 \/ ~Running(h) THEN h
  ELSE copy_loop(copy_word(h, dst, src, n,
                           IF dir = "fwd" THEN j ELSE (n + 3) \div 4 - 1 - j),
                 dst, src, n, dir, j + 1)

\* memcpy(dst, src, n).  The C library leaves the result undefined when the
\* two ranges overlap; the builds in use copy from the low end up or from
\* the high end down, and dir is the one this call happens to take.  For
\* ranges that do not overlap both give the same result.
CopyDirs == {"fwd", "bwd"}
memcpy(h, dst, src, n, dir) == copy_loop(h, dst, src, n, dir, 0)

set_word(h, dst, c, n, i) ==
  Do(IF 4 * i + 4 > n THEN n - 4 * i ELSE 0, LAMBDA r :
  Do(Chk(h, dst + 4 * i), LAMBDA h0 :
  Store(h0, dst + 4 * i, Splice(Load(h0, dst + 4 * i), c, r))))

RECURSIVE set_loop(_, _, _, _, _)
set_loop(h, dst, c, n, j) ==
  IF j >= (n + 3) \div 4 \/ ~Running(h) THEN h
  ELSE set_loop(set_word(h, dst, c, n, j), dst, c, n, j + 1)

\* memset(dst, 0, n), and a program filling its n bytes with one word value.
memset(h, dst, c, n) == set_loop(h, dst, c, n, 0)

(* ---------------- mm_init ---------------------------------------------- *)

\* The globals before mm_init (zero-initialised statics) over fresh memory.
Boot(junk) ==
  [mem |-> [a \in WordAddrs |-> junk], brk |-> 0, status |-> "run",
   heap_start |-> NULL, heap_end |-> NULL,
   list_start |-> NULL, list_end |-> NULL]

mm_init(h) ==
  Do(h.brk, LAMBDA ptr :
  Do(mem_sbrk(h, 8 * W), LAMBDA h1 :
  Do(bt_make(h1, ptr + 3 * W, 16, USED), LAMBDA h2 :
  Do([h2 EXCEPT !.heap_start = ptr + 7 * W, !.heap_end = ptr + 7 * W], LAMBDA h3 :
  Do(Store(h3, h3.heap_end, USED), LAMBDA h4 :
  [h4 EXCEPT !.list_start = NULL, !.list_end = NULL])))))

(* ---------------- coalesce --------------------------------------------- *)

\* coalesce without the merging: the block goes on the list as it is.
coalesce_nomerge(h, bt) == [h |-> list_add(Chk(h, bt), bt), ret |-> bt]

coalesce(h, bt) ==
  Do(Chk(Chk(h, bt - W), bt), LAMBDA h0 :
  Do(bt_prev(h0, bt), LAMBDA prev :
  Do(bt_next(h0, bt), LAMBDA next :
  Do(Chk(h0, next), LAMBDA h1 :
  Do(bt_free(h1, next), LAMBDA nextcheck :
  Do(bt_get_prevfree(h1, bt) # 0, LAMBDA prevcheck :
  IF ~prevcheck /\ ~nextcheck
  THEN [h |-> list_add(h1, bt), ret |-> bt]
  ELSE IF ~prevcheck /\ nextcheck
  THEN Do(list_remove(h1, next), LAMBDA h2 :
       Do(bt_make(h2, bt, bt_size(h2, bt) + bt_size(h2, next), FREE), LAMBDA h3 :
       [h |-> list_add(h3, bt), ret |-> bt]))
  ELSE IF prevcheck /\ ~nextcheck
  THEN Do(list_remove(h1, prev), LAMBDA h2 :
       Do(bt_make(Chk(h2, prev), prev, bt_size(h2, prev) + bt_size(h2, bt), FREE),
          LAMBDA h3 :
       [h |-> list_add(h3, prev), ret |-> prev]))
  ELSE Do(list_remove(h1, prev), LAMBDA h2 :
       Do(bt_make(Chk(h2, prev), prev,
                  bt_size(h2, prev) + bt_size(h2, bt) + bt_size(h2, next), FREE),
          LAMBDA h3 :
       Do(list_add(h3, prev), LAMBDA h4 :
       [h |-> list_remove(h4, next), ret |-> prev])))))))))

(* ---------------- malloc ----------------------------------------------- *)

RECURSIVE fit_loop(_, _, _, _, _)
fit_loop(h, ptr, best, reqsz, fuel) ==
  IF ptr = ptr_address(0) THEN [h |-> h, ret |-> best]
  ELSE IF fuel = 0 THEN [h |-> Hang(h), ret |-> NULL]
  ELSE IF ~Valid(ptr) \/ ~Valid(ptr + W) THEN [h |-> Segv(h), ret |-> NULL]
  ELSE Do(bt_size(h, ptr), LAMBDA ptrsize :
       fit_loop(h, ptr_next(h, ptr),
                IF ptrsize >= reqsz /\ (best = NULL \/ ptrsize < bt_size(h, best))
                THEN ptr ELSE best,
                reqsz, fuel - 1))

\* The first fit strategy: the first block of the list that is big enough.
RECURSIVE first_fit_loop(_, _, _, _)
first_fit_loop(h, ptr, reqsz, fuel) ==
  IF ptr = ptr_address(0) THEN [h |-> h, ret |-> NULL]
  ELSE IF fuel = 0 THEN [h |-> Hang(h), ret |-> NULL]
  ELSE IF ~Valid(ptr) \/ ~Valid(ptr + W) THEN [h |-> Segv(h), ret |-> NULL]
  ELSE IF bt_size(h, ptr) >= reqsz THEN [h |-> h, ret |-> ptr]
  ELSE first_fit_loop(h, ptr_next(h, ptr), reqsz, fuel - 1)

find_first_fit(h, reqsz) ==
  IF h.list_start = NULL THEN [h |-> h, ret |-> NULL]
  ELSE first_fit_loop(h, h.list_start, reqsz, Fuel)

find_fit(h, reqsz) ==
  IF h.list_start = NULL THEN [h |-> h, ret |-> NULL]
  ELSE fit_loop(h, h.list_start, NULL, reqsz, Fuel)

malloc(h, size) ==
  Do(blksz(size), LAMBDA asize :
  Do(find_fit(h, asize), LAMBDA f :
  Do(f.ret, LAMBDA ptr :
  Do(f.h, LAMBDA h0 :
  IF ptr # NULL
  THEN Do(bt_size(h0, ptr), LAMBDA blksize :
       IF blksize - asize >= 16
       THEN Do(bt_make(h0, ptr, asize, USED + bt_get_prevfree(h0, ptr)), LAMBDA h1 :
            Do(bt_next(h1, ptr), LAMBDA next :
            Do(bt_make(h1, next, blksize - asize, FREE), LAMBDA h2 :
            Do(list_remove(h2, ptr), LAMBDA h3 :
            [h |-> coalesce(h3, next).h, ret |-> bt_payload(ptr),
             path |-> "split"]))))
       ELSE Do(bt_make(h0, ptr, blksize, USED + bt_get_prevfree(h0, ptr)), LAMBDA h1 :
            [h |-> list_remove(h1, ptr), ret |-> bt_payload(ptr),
             path |-> "whole"]))
  ELSE Do(morecore(h0, asize), LAMBDA m :
       Do(Chk(m.h, m.ret), LAMBDA h1 :
       [h |-> bt_make(h1, m.ret, asize, USED + bt_get_prevfree(h1, m.ret)),
        ret |-> bt_payload(m.ret),
        path |-> IF SbrkFails(h0, asize) THEN "oom" ELSE "grow"]))))))

(* ---------------- free ------------------------------------------------- *)

free(h, ptr) ==
  IF ptr # NULL
  THEN Do(bt_fromptr(ptr), LAMBDA block :
       Do(Chk(h, block), LAMBDA h0 :
       Do(bt_make(h0, block, bt_size(h0, block), FREE + bt_get_prevfree(h0, block)),
          LAMBDA h1 :
       coalesce(h1, block).h)))
  ELSE h


(* ---------------- realloc ---------------------------------------------- *)

\* if (asize <= blocksize): shrink in place.
realloc_shrink(h, old_ptr, block, blocksize, asize) ==
  Do(blocksize - asize, LAMBDA rest :
  IF rest >= 16
  THEN Do(bt_make(h, block, asize, USED + bt_get_prevfree(h, block)), LAMBDA h1 :
       Do(bt_make(h1, bt_next(h1, block), rest, FREE), LAMBDA h2 :
       [h |-> coalesce(h2, bt_next(h2, block)).h, ret |-> old_ptr,
        path |-> "shrink_split"]))
  ELSE [h |-> h, ret |-> old_ptr, path |-> "shrink_keep"])

\* if (next == heap_end): the block is the last one, grow the heap under it.
realloc_tail(h, old_ptr, block, blocksize, asize) ==
  Do(morecore(h, asize - blocksize).h, LAMBDA h1 :
  [h |-> bt_make(h1, block, asize, USED + bt_get_prevfree(h1, block)),
   ret |-> old_ptr,
   path |-> IF SbrkFails(h, asize - blocksize) THEN "tail_oom" ELSE "tail"])

\* Both neighbours are free and the three blocks together are big enough.
\* copied is the byte count handed to memcpy.
realloc_both(h, old_ptr, size, prev, next, withboth, asize, dir) ==
  Do(list_remove(h, next), LAMBDA h1 :
  Do(list_remove(h1, prev), LAMBDA h2 :
  Do(memcpy(h2, bt_payload(prev), old_ptr, size, dir), LAMBDA h3 :
  IF withboth - asize >= 16
  THEN Do(bt_make(h3, prev, asize, USED), LAMBDA h4 :
       Do(bt_next(h4, prev), LAMBDA freeblock :
       Do(bt_make(h4, freeblock, withboth - asize, FREE), LAMBDA h5 :
       [h |-> coalesce(h5, freeblock).h, ret |-> bt_payload(prev),
        path |-> "both", copied |-> size])))
  ELSE [h |-> bt_make(h3, prev, withboth, USED), ret |-> bt_payload(prev),
        path |-> "both", copied |-> size])))

\* The left neighbour is free and the two blocks together are big enough.
realloc_left(h, old_ptr, size, block, prev, withprev, asize, dir) ==
  Do(list_remove(h, prev), LAMBDA h1 :
  Do(memcpy(h1, bt_payload(prev), old_ptr, size, dir), LAMBDA h2 :
  IF withprev - asize >= 16
  THEN Do(bt_make(h2, prev, asize, USED + bt_get_prevfree(h2, block)), LAMBDA h3 :
       Do(bt_next(h3, prev), LAMBDA prevnext :
       Do(bt_make(h3, prevnext, withprev - asize, FREE), LAMBDA h4 :
       [h |-> coalesce(h4, prevnext).h, ret |-> bt_payload(prev),
        path |-> "left", copied |-> size])))
  ELSE [h |-> bt_make(h2, prev, withprev, USED + bt_get_prevfree(h2, block)),
        ret |-> bt_payload(prev), path |-> "left", copied |-> size]))

\* The right neighbour is free and the two blocks together are big enough.
realloc_right(h, old_ptr, block, next, withnext, asize) ==
  Do(list_remove(h, next), LAMBDA h1 :
  IF withnext - asize >= 16
  THEN Do(bt_make(h1, block, asize, USED + bt_get_prevfree(h1, block)), LAMBDA h2 :
       Do(bt_next(h2, block), LAMBDA new :
       Do(bt_make(h2, new, withnext - asize, FREE), LAMBDA h3 :
       [h |-> coalesce(h3, new).h, ret |-> old_ptr, path |-> "right"])))
  ELSE [h |-> bt_make(h1, block, withnext, USED + bt_get_prevfree(h1, block)),
        ret |-> old_ptr, path |-> "right"])

\* The general case: a new block, a copy, and the old block freed.
realloc_fallback(h, old_ptr, size, dir) ==
  Do(malloc(h, size), LAMBDA m :
  Do(memcpy(m.h, m.ret, old_ptr, size, dir), LAMBDA h1 :
  [h |-> free(h1, old_ptr), ret |-> m.ret,
   path |-> IF m.path = "oom" THEN "fallback_oom" ELSE "fallback",
   copied |-> size]))

\* realloc from the point where old_ptr is not null and size is not 0.
realloc_resize(h, old_ptr, size, dir) ==
  Do(bt_fromptr(old_ptr), LAMBDA block :
  Do(Chk(h, block), LAMBDA h0 :
  Do(bt_size(h0, block), LAMBDA blocksize :
  Do(blksz(size), LAMBDA asize :
  IF asize <= blocksize
  THEN realloc_shrink(h0, old_ptr, block, blocksize, asize)
  ELSE
  Do(bt_next(h0, block), LAMBDA next :
  IF next = h0.heap_end
  THEN realloc_tail(h0, old_ptr, block, blocksize, asize)
  ELSE
  Do(Chk(Chk(h0, next), block - W), LAMBDA hn :
  Do(bt_prev(hn, block), LAMBDA prev :
  Do(Chk(hn, prev), LAMBDA hp :
  Do(bt_size(hp, prev) + blocksize + bt_size(hp, next), LAMBDA withboth :
  Do(blocksize + bt_size(hp, prev), LAMBDA withprev :
  Do(blocksize + bt_size(hn, next), LAMBDA withnext :
  IF bt_get_prevfree(hn, block) # 0 /\ bt_free(hn, next) /\ withboth >= asize
  THEN realloc_both(hp, old_ptr, size, prev, next, withboth, asize, dir)
  ELSE IF bt_get_prevfree(hn, block) # 0 /\ withprev >= asize
  THEN realloc_left(hp, old_ptr, size, block, prev, withprev, asize, dir)
  ELSE IF bt_free(hn, next) /\ withnext >= asize
  THEN realloc_right(hn, old_ptr, block, next, withnext, asize)
  ELSE realloc_fallback(hn, old_ptr, size, dir))))))))))))

\* realloc with its two leading tests in the other order.
realloc_swapped(h, old_ptr, size, dir) ==
  IF size = 0
  THEN [h |-> free(h, old_ptr), ret |-> NULL, path |-> "zero_size"]
  ELSE IF old_ptr = NULL
  THEN Do(malloc(h, size), LAMBDA m : [h |-> m.h, ret |-> m.ret, path |-> "null_ptr"])
  ELSE realloc_resize(h, old_ptr, size, dir)

realloc(h, old_ptr, size, dir) ==
  IF old_ptr = NULL
  THEN Do(malloc(h, size), LAMBDA m : [h |-> m.h, ret |-> m.ret, path |-> "null_ptr"])
  ELSE IF size = 0
  THEN [h |-> free(h, old_ptr), ret |-> NULL, path |-> "zero_size"]
  ELSE realloc_resize(h, old_ptr, size, dir)

(* ---------------- calloc ----------------------------------------------- *)

\* size_t is 64 bits wide: a value is its eight bytes, low byte first.
Limbs == 8
Byte == 256
SizeT(lo, hi) == <<lo, 0, 0, 0, 0, 0, 0, hi>>
Limb(a, i) == IF i < Len(a) THEN a[i + 1] ELSE 0

RECURSIVE Column(_, _, _, _)
Column(a, b, k, i) ==
  IF i > k THEN 0 ELSE Limb(a, i) * Limb(b, k - i) + Column(a, b, k, i + 1)

\* The low `limbs` bytes of the product a * b, by long multiplication.
RECURSIVE mul_loop(_, _, _, _, _)
mul_loop(a, b, limbs, k, carry) ==
  IF k = limbs THEN << >>
  ELSE Do(Column(a, b, k, 0) + carry, LAMBDA t :
       <<t % Byte>> \o mul_loop(a, b, limbs, k + 1, t \div Byte))

\* nmemb * size as the machine computes it, and as mathematics does.
MulSizeT(a, b) == mul_loop(a, b, Limbs, 0, 0)
MulExact(a, b) == mul_loop(a, b, 2 * Limbs, 0, 0)
Overflows(a, b) ==
  Do(MulExact(a, b), LAMBDA exact :
  \E i \in Limbs..(2 * Limbs - 1) : Limb(exact, i) # 0)

\* A size_t as a number of the model: a request the heap could hold keeps
\* its value, any larger one is a value no heap of the model can hold.
HUGE == 1073741824
ToInt(a) ==
  IF \A i \in 2..(Limbs - 1) : Limb(a, i) = 0
  THEN Limb(a, 0) + Byte * Limb(a, 1)
  ELSE HUGE

calloc(h, nmemb, size) ==
  Do(ToInt(MulSizeT(nmemb, size)), LAMBDA bytes :
  Do(malloc(h, bytes), LAMBDA m :
  [h |-> IF m.ret # NULL THEN memset(m.h, m.ret, 0, bytes) ELSE m.h,
   ret |-> m.ret, path |-> m.path]))

(* ---------------- state ------------------------------------------------ *)

\* mem .. list_end are the allocator's memory and globals; status says
\* whether the process is still running; live maps every pointer the program
\* holds to the size it asked for; call describes the last call made and
\* calls counts the calls made so far.
VARIABLES mem, brk, heap_start, heap_end, list_start, list_end,
          status, live, call, calls

vars == <<mem, brk, heap_start, heap_end, list_start, list_end,
          status, live, call, calls>>

\* The heap record the operators work on.
Heap ==
  [mem |-> mem, brk |-> brk, status |-> status, heap_start |-> heap_start,
   heap_end |-> heap_end, list_start |-> list_start, list_end |-> list_end]

\* The state after an operation that produced heap record h.  A call that
\* did not return leaves a dead process: only its status is recorded.
Becomes(h) ==
  IF Running(h)
  THEN /\ mem' = h.mem /\ brk' = h.brk /\ heap_start' = h.heap_start
       /\ heap_end' = h.heap_end
       /\ list_start' = h.list_start /\ list_end' = h.list_end
       /\ status' = "run"
  ELSE /\ status' = h.status
       /\ UNCHANGED <<mem, brk, heap_start, heap_end, list_start, list_end>>

Returned(h, ret) == IF Running(h) THEN ret ELSE NULL
Called(op, path, h, ret) == [op |-> op, path |-> path, ret |-> Returned(h, ret)]

Init ==
  /\ \E junk \in UninitVals :
       LET h == mm_init(Boot(junk))
       IN /\ mem = h.mem /\ brk = h.brk /\ heap_start = h.heap_start
          /\ heap_end = h.heap_end
          /\ list_start = h.list_start /\ list_end = h.list_end
          /\ status = h.status
  /\ live = << >>
  /\ call = [op |-> "mm_init", path |-> "init", ret |-> 0]
  /\ calls = 0

Ptrs == DOMAIN live
Drop(f, p) == [q \in (DOMAIN f) \ {p} |-> f[q]]
Put(f, p, n) == [q \in (DOMAIN f) \cup {p} |-> IF q = p THEN n ELSE f[q]]

MallocReturns(n, r) ==
  /\ Becomes(r.h)
  /\ live' = IF Running(r.h) THEN Put(live, r.ret, n) ELSE live
  /\ call' = Called("malloc", r.path, r.h, r.ret)

Malloc(n) ==
  /\ status = "run"
  /\ LET r == malloc(Heap, n) IN MallocReturns(n, r)

\* How a free relates to the call before it: free(NULL), the free of the
\* pointer the preceding malloc returned (by what that malloc did), or any
\* other free.
FreePath(p) ==
  IF p = NULL THEN "null_ptr"
  ELSE IF call.op = "malloc" /\ call.ret = p
  THEN IF call.path = "split" THEN "undo_split"
       ELSE IF call.path = "whole" THEN "undo_whole"
       ELSE "undo_grow"
  ELSE "free"

FreeReturns(p, h) ==
  /\ Becomes(h)
  /\ live' = IF Running(h) /\ p # NULL THEN Drop(live, p) ELSE live
  /\ call' = Called("free", FreePath(p), h, NULL)

Free(p) ==
  /\ status = "run"
  /\ LET h == free(Heap, p) IN FreeReturns(p, h)

ReallocReturns(p, n, r) ==
  /\ Becomes(r.h)
  /\ live' = IF ~Running(r.h) THEN live
             ELSE IF r.ret = NULL THEN Drop(live, p)
             ELSE Put(Drop(live, p), r.ret, n)
  /\ call' = Called("realloc", r.path, r.h, r.ret)

Realloc(p, n, dir) ==
  /\ status = "run"
  /\ LET r == realloc(Heap, p, n, dir) IN ReallocReturns(p, n, r)

\* calloc arguments: 3 * 4 = 12; (2^62 + 3) * 4 = 2^64 + 12; 2^63 * 4 = 2^65.
CallocArgs == {<<SizeT(3, 0), SizeT(4, 0)>>, <<SizeT(3, 64), SizeT(4, 0)>>,
               <<SizeT(0, 128), SizeT(4, 0)>>}

CallocReturns(bytes, overflow, r) ==
  /\ Becomes(r.h)
  /\ live' = IF Running(r.h) THEN Put(live, r.ret, bytes) ELSE live
  /\ call' = Called(IF overflow THEN "calloc_overflow" ELSE "calloc",
                    r.path, r.h, r.ret)

Calloc(nmemb, size) ==
  /\ status = "run"
  /\ LET bytes == ToInt(MulSizeT(nmemb, size))
         overflow == Overflows(nmemb, size)
         r == calloc(Heap, nmemb, size)
     IN CallocReturns(bytes, overflow, r)

\* The program writes value v over the n bytes it asked for at p.
Write(p, v) ==
  /\ status = "run"
  /\ live[p] > 0
  /\ LET h == memset(Heap, p, v, live[p]) IN Becomes(h)
  /\ UNCHANGED live
  /\ call' = [op |-> "write", path |-> "write", ret |-> p]

\* A program makes at most k calls.
Tick(k) == calls < k /\ calls' = calls + 1

\* Every call with every argument, in short programs.
Next ==
  \/ \E n \in Sizes : Tick(MaxCalls) /\ Malloc(n)
  \/ \E p \in Ptrs \cup {NULL} : Tick(MaxCalls) /\ Free(p)
  \/ \E p \in Ptrs \cup {NULL}, n \in Sizes, dir \in CopyDirs :
        Tick(MaxCalls) /\ Realloc(p, n, dir)
  \/ \E a \in CallocArgs : Tick(MaxCalls) /\ Calloc(a[1], a[2])
  \/ \E p \in Ptrs, v \in DataVals : Tick(MaxCalls) /\ Write(p, v)

Spec == Init /\ [][Next]_vars

\* Longer programs that allocate, free and reallocate blocks they hold.
NextLong ==
  \/ \E n \in LongSizes : Tick(LongCalls) /\ Malloc(n)
  \/ \E p \in Ptrs : Tick(LongCalls) /\ Free(p)
  \/ \E p \in Ptrs, n \in LongSizes, dir \in CopyDirs :
        Tick(LongCalls) /\ Realloc(p, n, dir)
  \/ \E p \in Ptrs, v \in DataVals : Tick(LongCalls) /\ Write(p, v)

SpecLong == Init /\ [][NextLong]_vars

\* Programs that only allocate and free.
NextMF ==
  \/ \E n \in Sizes : Tick(LongCalls) /\ Malloc(n)
  \/ \E p \in Ptrs : Tick(LongCalls) /\ Free(p)

SpecMF == Init /\ [][NextMF]_vars

(* ---------------- observations of a heap ------------------------------- *)

\* The physical walk: the tags met from heap_start stepping by the size in
\* each header, up to the first that is at or past heap_end, unmapped, or of
\* size 0.  stop is the address the walk ended at.
RECURSIVE walk(_, _, _)
walk(h, bt, fuel) ==
  IF bt >= h.heap_end \/ fuel = 0 \/ ~Valid(bt) \/ bt_size(h, bt) = 0
  THEN [blocks |-> << >>, stop |-> bt]
  ELSE LET w == walk(h, bt + bt_size(h, bt), fuel - 1)
       IN [blocks |-> <<bt>> \o w.blocks, stop |-> w.stop]

Walk(h) == walk(h, h.heap_start, Fuel)
Blocks(h) == Walk(h).blocks
FreeBlocks(h) == {Blocks(h)[i] : i \in {j \in DOMAIN Blocks(h) : bt_free(h, Blocks(h)[j])}}

RECURSIVE SumSizes(_, _)
SumSizes(h, bs) == IF bs = << >> THEN 0 ELSE bt_size(h, Head(bs)) + SumSizes(h, Tail(bs))

\* The free list followed through one of its two links from one of its ends;
\* ok is FALSE when the chain leaves memory or does not end within Fuel links.
RECURSIVE chain(_, _, _, _)
chain(h, bt, off, fuel) ==
  IF bt = ptr_address(0) THEN [blocks |-> << >>, ok |-> TRUE]
  ELSE IF fuel = 0 \/ ~Valid(bt) \/ ~Valid(bt + off) THEN [blocks |-> << >>, ok |-> FALSE]
  ELSE LET c == chain(h, ptr_address(Load(h, bt + off)), off, fuel - 1)
       IN [blocks |-> <<bt>> \o c.blocks, ok |-> c.ok]

Forward(h) == IF h.list_start = NULL THEN [blocks |-> << >>, ok |-> TRUE]
              ELSE chain(h, h.list_start, W, Fuel)
Backward(h) == IF h.list_end = NULL THEN [blocks |-> << >>, ok |-> TRUE]
               ELSE chain(h, h.list_end, 2 * W, Fuel)
Range(q) == {q[i] : i \in DOMAIN q}
NoRepeat(q) == \A i, j \in DOMAIN q : q[i] = q[j] => i = j

\* (P2) restricted to heap h.
FooterOk(h) ==
  \A b \in FreeBlocks(h) :
    Valid(bt_footer(h, b)) /\ Load(h, bt_footer(h, b)) = Load(h, b)

\* (P3) restricted to heap h.
PrevFreeOk(h) ==
  LET bs == Blocks(h) \o <<h.heap_end>>
  IN \A i \in DOMAIN bs :
       (bt_get_prevfree(h, bs[i]) # 0) <=> (i > 1 /\ bt_free(h, bs[i - 1]))

\* (P5) restricted to heap h.
ListOk(h) ==
  LET f == Forward(h)
      b == Backward(h)
  IN /\ f.ok /\ b.ok /\ NoRepeat(f.blocks) /\ NoRepeat(b.blocks)
     /\ Range(f.blocks) = FreeBlocks(h)
     /\ Range(b.blocks) = FreeBlocks(h)
     /\ h.list_start # NULL => Load(h, h.list_start + 2 * W) = 0
     /\ h.list_end # NULL => Load(h, h.list_end + W) = 0
     /\ (h.list_start = NULL) <=> (FreeBlocks(h) = {})
     /\ (h.list_end = NULL) <=> (FreeBlocks(h) = {})

\* (P4) restricted to heap h.
NoAdjacentFree(h) ==
  LET bs == Blocks(h)
  IN \A i \in DOMAIN bs : i > 1 => ~(bt_free(h, bs[i - 1]) /\ bt_free(h, bs[i]))

\* (P1) restricted to heap h.
WalkOk(h) ==
  /\ Walk(h).stop = h.heap_end
  /\ Valid(h.heap_end)
  /\ bt_size(h, h.heap_end) = 0 /\ bt_used(h, h.heap_end)
  /\ SumSizes(h, Blocks(h)) = h.heap_end - h.heap_start

\* What a caller can observe of the heap: its end, the epilogue word, every
\* boundary tag met by the walk and the free list in both directions.
HeapObs(h) ==
  [heap_end |-> h.heap_end, epilogue |-> Load(h, h.heap_end),
   tags |-> [i \in DOMAIN Blocks(h) |-> <<Blocks(h)[i], Load(h, Blocks(h)[i])>>],
   list_start |-> h.list_start, list_end |-> h.list_end,
   forward |-> Forward(h), backward |-> Backward(h)]

\* The first k bytes at p: whole words, and the low bytes of the last one.
Bytes(h, p, k) ==
  [i \in 0..((k + 3) \div 4 - 1) |->
     IF 4 * i + 4 > k THEN Splice(0, Load(h, p + 4 * i), k - 4 * i)
     ELSE Load(h, p + 4 * i)]

Min(a, b) == IF a < b THEN a ELSE b

\* The multiset of the sizes of the FREE blocks of the walk: every size
\* with the number of blocks that have it.
FreeSizes(h) ==
  {<<sz, Cardinality({b \in FreeBlocks(h) : bt_size(h, b) = sz})>> :
     sz \in {bt_size(h, b) : b \in FreeBlocks(h)}}

\* The bytes in FREE blocks of the walk.
FreeBytes(h) == SumSizes(h, SelectSeq(Blocks(h), LAMBDA b : bt_free(h, b)))

\* (P6) restricted to heap h, with where the headers lie.
SizeOk(h) ==
  \A i \in DOMAIN Blocks(h) :
    /\ bt_size(h, Blocks(h)[i]) >= 16
    /\ bt_size(h, Blocks(h)[i]) % ALIGNMENT = 0
    /\ Blocks(h)[i] % ALIGNMENT = ALIGNMENT - W

\* (P1) to (P5) together.
WellFormed(h) ==
  WalkOk(h) /\ FooterOk(h) /\ PrevFreeOk(h) /\ NoAdjacentFree(h) /\ ListOk(h)

HeapUnchanged == HeapObs(Heap') = HeapObs(Heap)
ReturnedNull == status' = "run" /\ call'.ret = NULL

(* ---------------- claims ----------------------------------------------- *)

\* C1: after every call that returns, PREVFREE of every block of the walk
\* and of the epilogue is set iff a preceding block exists and is FREE.
C1_PrevFreeConsistent == status = "run" => PrevFreeOk(Heap)

\* C2: after every call that returns, the free list read forward, read
\* backward, and the FREE blocks of the walk are the same set, without
\* repetition, with null links at both ends, and the list is empty exactly
\* when no block is FREE.
C2_FreeListIsFreeBlocks == status = "run" => ListOk(Heap)

\* C3: after every call that returns, no two physically adjacent blocks are
\* both FREE.
C3_NoAdjacentFree == status = "run" => NoAdjacentFree(Heap)

\* C4: after every call that returns, the walk from heap_start lands exactly
\* on heap_end, where the size-0 USED epilogue is, and the sizes add up to
\* heap_end - heap_start.
C4_WalkReachesEpilogue == status = "run" => WalkOk(Heap)

\* C5: realloc(p, n) with p not null and n > 0 that returns q not null keeps
\* the first min(n, b - W) payload bytes, b the size of p's block before.
C5_ReallocKeepsPayload ==
  [][\A p \in Ptrs, n \in Sizes \ {0}, dir \in CopyDirs :
       (Realloc(p, n, dir) /\ status' = "run" /\ call'.ret # NULL)
         => LET k == Min(n, bt_size(Heap, bt_fromptr(p)) - W)
            IN Bytes(Heap', call'.ret, k) = Bytes(Heap, p, k)]_vars

\* C6: when mem_sbrk refuses, malloc, calloc and realloc return null and the
\* heap is as it was before the call.
C6_OutOfMemoryReturnsNull ==
  [][call'.path \in {"oom", "tail_oom", "fallback_oom"}
       => ReturnedNull /\ HeapUnchanged]_vars

\* C7: malloc(0) returns null and leaves the heap unchanged.
C7_MallocZeroReturnsNull ==
  [][Malloc(0) => ReturnedNull /\ HeapUnchanged]_vars

\* C8: realloc(NULL, n) returns what malloc(n) returns and leaves the heap
\* malloc(n) leaves; realloc(p, 0) returns null and leaves the heap free(p)
\* leaves.
C8_ReallocDegenerateCases ==
  [][\A dir \in CopyDirs :
       /\ \A n \in Sizes :
            Realloc(NULL, n, dir)
              => LET m == malloc(Heap, n)
                 IN Becomes(m.h) /\ call'.ret = Returned(m.h, m.ret)
       /\ \A p \in Ptrs :
            Realloc(p, 0, dir)
              => LET h == free(Heap, p)
                 IN Becomes(h) /\ call'.ret = NULL]_vars

C8_Witness ==
  /\ status = "run" /\ call.op = "realloc"
  /\ call.path \in {"null_ptr", "zero_size"}

\* C9: calloc(nmemb, size) returns null and leaves the heap unchanged when
\* nmemb * size does not fit in size_t.
C9_CallocOverflowReturnsNull ==
  [][call'.op = "calloc_overflow" => ReturnedNull /\ HeapUnchanged]_vars

\* malloc(n) followed by free of the pointer it returned, from heap h.
MallocThenFree(h, n) ==
  LET m == malloc(h, n)
  IN [h |-> free(m.h, m.ret), path |-> m.path]

Restores(h, n) ==
  LET r == MallocThenFree(h, n)
  IN Running(r.h) => FreeSizes(r.h) = FreeSizes(h) /\ r.h.heap_end = h.heap_end

KeepsGrowth(h, n) ==
  LET r == MallocThenFree(h, n)
  IN Running(r.h) => /\ r.h.heap_end = h.heap_end + blksz(n)
                     /\ FreeBytes(r.h) = FreeBytes(h) + blksz(n)

C11_AllFreedIsOneBlock ==
  (status = "run" /\ calls > 0 /\ Ptrs = {}) =>
    /\ Blocks(Heap) = <<heap_start>>
    /\ bt_free(Heap, heap_start)
    /\ bt_size(Heap, heap_start) = heap_end - heap_start
    /\ Forward(Heap) = [blocks |-> <<heap_start>>, ok |-> TRUE]
    /\ Backward(Heap) = [blocks |-> <<heap_start>>, ok |-> TRUE]
    /\ list_start = heap_start /\ list_end = heap_start

\* C12: after every call that returns, every block of the walk has a size
\* that is at least 16 and a multiple of 16 and a header at an address that
\* is 12 modulo 16, and a pointer that malloc, calloc or realloc returned is
\* a multiple of 16.
C12_BlocksAligned ==
  status = "run" =>
    /\ SizeOk(Heap)
    /\ (call.op \in {"malloc", "calloc", "calloc_overflow", "realloc"}
          /\ call.ret # NULL) => call.ret % ALIGNMENT = 0

\* align_up(n + W, 16) without wrap-around is blksz(n) for a request below
\* 2^63; for a larger one it is 2^63 or more, which no 32-bit header holds.
HoldsExactSize(h, q, n) == n >= 0 /\ bt_size(h, bt_fromptr(q)) = blksz(n)

\* C13: malloc(n) or realloc(p, n), n > 0, that returns q not null leaves
\* q's block USED with header size align_up(n + W, 16), the exact value;
\* when malloc grew the heap, heap_end is that much higher and the block is
\* the last one before the epilogue.
C13_BlockSizeIsAlignedRequest ==
  [][\A n \in Sizes \ {0} :
       (/\ Malloc(n) \/ \E p \in Ptrs \cup {NULL}, dir \in CopyDirs : Realloc(p, n, dir)
        /\ status' = "run" /\ call'.ret # NULL)
         => /\ bt_used(Heap', bt_fromptr(call'.ret))
            /\ HoldsExactSize(Heap', call'.ret, n)
            /\ call'.path = "grow" =>
                  /\ heap_end' = heap_end + bt_size(Heap', bt_fromptr(call'.ret))
                  /\ bt_fromptr(call'.ret) + bt_size(Heap', bt_fromptr(call'.ret))
                       = heap_end']_vars

\* The FREE blocks that can hold a request of n bytes, a = align_up(n + W,
\* 16): the blocks of the free list, which is what malloc searches, of size
\* a or more.  No block can hold a request of 2^63 bytes or more.
Fits(h, n) ==
  IF n < 0 THEN {}
  ELSE {b \in Range(Forward(h).blocks) : bt_size(h, b) >= blksz(n)}

\* b is a smallest block of Fits(h, n), and the first of that size on the
\* free list read from list_start.
IsBestFit(h, n, b) ==
  /\ b \in Fits(h, n)
  /\ \A c \in Fits(h, n) : bt_size(h, b) <= bt_size(h, c)
  /\ \E i \in DOMAIN Forward(h).blocks :
       /\ Forward(h).blocks[i] = b
       /\ \A j \in 1..(i - 1) :
            bt_size(h, Forward(h).blocks[j]) # bt_size(h, b)

\* malloc(n) from heap h reaches its call of morecore.
CallsProvider(h, n) ==
  LET f == find_fit(h, blksz(n)) IN Running(f.h) /\ f.ret = NULL

\* C14: malloc(n) takes, when a FREE block of size >= a = align_up(n + W, 16)
\* exists, a smallest such block, the first of that size in list order, and
\* calls the provider only when no FREE block has size >= a.
C14_BestFit ==
  [][\A n \in Sizes :
       Malloc(n) =>
         /\ (Fits(Heap, n) # {} /\ status' = "run")
              => /\ call'.path \in {"split", "whole"}
                 /\ IsBestFit(Heap, n, bt_fromptr(call'.ret))
         /\ CallsProvider(Heap, n) => Fits(Heap, n) = {}]_vars

\* A malloc that took a whole block and left a larger one on the free list.
C14_Witness ==
  /\ status = "run" /\ call.op = "malloc" /\ call.path = "whole"
  /\ \E b \in Range(Forward(Heap).blocks) :
       bt_size(Heap, b) > bt_size(Heap, bt_fromptr(call.ret))

\* The USED and PREVFREE bits of the header at bt.
Flags(h, bt) == Load(h, bt) - bt_size(h, bt)

\* The allocator's memory and globals are as they were.
NothingChanges ==
  UNCHANGED <<mem, brk, heap_start, heap_end, list_start, list_end>>

\* What realloc(p, n) must leave when a = align_up(n + W, 16) is at most b,
\* the size of p's block.
ShrinksInPlace(p, n) ==
  LET block == bt_fromptr(p)
      b == bt_size(Heap, block)
      a == blksz(n)
      right == block + b
      merged == IF bt_free(Heap, right) THEN bt_size(Heap, right) ELSE 0
  IN /\ status' = "run" /\ call'.ret = p
     /\ b - a < 16 => NothingChanges
     /\ b - a >= 16 =>
          /\ bt_size(Heap', block) = a
          /\ Flags(Heap', block) = Flags(Heap, block)
          /\ bt_free(Heap', block + a)
          /\ bt_size(Heap', block + a) = b - a + merged

\* C15: realloc(p, n), p not null, n > 0, with a = align_up(n + W, 16) <= b
\* returns p; when b - a < 16 nothing in the heap changes; when b - a >= 16
\* the block has size a and its USED and PREVFREE bits as before, and a FREE
\* block starts at block + a, of size b - a plus the size of the former
\* right neighbour when that one was FREE.
C15_ReallocShrinksInPlace ==
  [][\A p \in Ptrs, n \in Sizes \ {0}, dir \in CopyDirs :
       (/\ call'.op = "realloc"
        /\ n > 0 /\ blksz(n) <= bt_size(Heap, bt_fromptr(p))
        /\ Realloc(p, n, dir))
         => ShrinksInPlace(p, n)]_vars

\* What realloc(p, n) must leave when p's block is the last one, a =
\* align_up(n + W, 16) exceeds its size b and the provider gives a - b.
GrowsAtTail(p, n) ==
  LET block == bt_fromptr(p)
      b == bt_size(Heap, block)
      a == blksz(n)
  IN /\ status' = "run" /\ call'.ret = p
     /\ heap_end' = heap_end + (a - b)
     /\ bt_size(Heap', block) = a /\ bt_used(Heap', block)
     /\ bt_get_prevfree(Heap', block) = bt_get_prevfree(Heap, block)
     /\ bt_used(Heap', heap_end') /\ bt_size(Heap', heap_end') = 0
     /\ list_start' = list_start /\ list_end' = list_end
     /\ \A addr \in WordAddrs : addr < block => mem'[addr] = mem[addr]

\* C16: realloc(p, n) with a = align_up(n + W, 16) > b, p's block followed
\* by the epilogue and the provider giving a - b bytes: returns p, heap_end
\* is a - b higher, the header has size a, USED set and PREVFREE as before,
\* the USED epilogue is at the new heap_end, and the free list and every
\* other block are as before, whether or not the left neighbour is FREE.
C16_ReallocGrowsAtTail ==
  [][\A p \in Ptrs, n \in Sizes \ {0}, dir \in CopyDirs :
       (/\ call'.op = "realloc"
        /\ n > 0 /\ blksz(n) > bt_size(Heap, bt_fromptr(p))
        /\ bt_fromptr(p) + bt_size(Heap, bt_fromptr(p)) = heap_end
        /\ ~SbrkFails(Heap, blksz(n) - bt_size(Heap, bt_fromptr(p)))
        /\ Realloc(p, n, dir))
         => GrowsAtTail(p, n)]_vars

\* The block that precedes bt in the walk is FREE.
LeftIsFree(h, bt) ==
  \E i \in DOMAIN Blocks(h) :
    i > 1 /\ Blocks(h)[i] = bt /\ bt_free(h, Blocks(h)[i - 1])

\* The payload words of the block at bt, by the size in its header.
PayloadWords(h, bt) ==
  {addr \in WordAddrs : bt + W <= addr /\ addr < bt + bt_size(h, bt)}

\* realloc(p, n) is to grow p's block into its FREE right neighbour alone.
RightOnly(p, n) ==
  LET block == bt_fromptr(p)
      b == bt_size(Heap, block)
      right == block + b
  IN /\ n > 0 /\ blksz(n) > b
     /\ right < heap_end /\ Valid(right)
     /\ ~LeftIsFree(Heap, block)
     /\ bt_free(Heap, right) /\ b + bt_size(Heap, right) >= blksz(n)

\* What that realloc must leave.
GrowsRight(p, n) ==
  LET block == bt_fromptr(p)
      b == bt_size(Heap, block)
      a == blksz(n)
      right == block + b
      rest == b + bt_size(Heap, right) - a
  IN /\ status' = "run" /\ call'.ret = p
     /\ \A addr \in PayloadWords(Heap, block) : mem'[addr] = mem[addr]
     /\ right \notin Range(Forward(Heap').blocks)
     /\ bt_used(Heap', block) /\ bt_size(Heap', block) = a
     /\ bt_get_prevfree(Heap', block) = bt_get_prevfree(Heap, block)
     /\ rest >= 16 =>
          /\ bt_free(Heap', block + a) /\ bt_size(Heap', block + a) = rest
          /\ block + a \in Range(Forward(Heap').blocks)
     /\ rest < 16 => block + a \notin Range(Forward(Heap').blocks)

\* C17: realloc(p, n) with a = align_up(n + W, 16) > b, p's block not the
\* last, its left neighbour not FREE, its right neighbour FREE and the two
\* together of size a or more: returns p, writes no payload byte of p, takes
\* the right neighbour off the free list, leaves the block USED of size a
\* with PREVFREE as before, and, when 16 bytes or more remain, a FREE block
\* of exactly the remaining size behind it, on the free list.
C17_ReallocGrowsRight ==
  [][\A p \in Ptrs, n \in Sizes \ {0}, dir \in CopyDirs :
       (call'.op = "realloc" /\ RightOnly(p, n) /\ Realloc(p, n, dir))
         => GrowsRight(p, n)]_vars

\* The paths of realloc that call memcpy.
CopyPaths == {"both", "left", "fallback"}

\* C18: when realloc(p, n) copies payload, on the both-neighbours, the left
\* neighbour or the fallback path, it copies min(n, b - W) bytes, b the size
\* of p's block before the call: every byte read lies in [p, p + b - W) and
\* none at or past heap_end.
C18_ReallocCopiesWithinPayload ==
  [][\A p \in Ptrs, n \in Sizes \ {0}, dir \in CopyDirs :
       (call'.op = "realloc" /\ call'.path \in CopyPaths /\ n > 0
        /\ Realloc(p, n, dir))
         => LET b == bt_size(Heap, bt_fromptr(p))
                copied == realloc(Heap, p, n, dir).copied
            IN /\ copied = Min(n, b - W)
               /\ p + copied <= p + b - W
               /\ p + copied <= heap_end]_vars

\* The payload of q's block lies in the heap, away from the payload of
\* every other pointer the program holds, and the block is not on the free
\* list.
OwnsPayload(h, q) ==
  LET block == bt_fromptr(q)
      end == block + bt_size(h, block)
  IN /\ h.heap_start <= block /\ q <= end /\ end <= h.heap_end
     /\ \A r \in Ptrs \ {q} :
          \/ end <= r
          \/ bt_fromptr(r) + bt_size(h, bt_fromptr(r)) <= q
     /\ block \notin Range(Forward(h).blocks)
     /\ block \notin Range(Backward(h).blocks)

\* C19: in every state reached by malloc, calloc, realloc and free on
\* pointers the program holds, the payloads of two held pointers are
\* disjoint, each lies inside [heap_start, heap_end), and no held block is
\* reachable from the free list.
C19_AllocatedBlocksDisjoint ==
  status = "run" => \A q \in Ptrs : OwnsPayload(Heap, q)

\* The call left the block of q alone: its payload, its size and its USED
\* bit are as before, and its PREVFREE bit changed only if the block before
\* it in the walk is one the call made or one whose header it changed.
LeftAlone(q) ==
  LET block == bt_fromptr(q)
      after == Blocks(Heap')
  IN /\ \A addr \in PayloadWords(Heap, block) : mem'[addr] = mem[addr]
     /\ bt_size(Heap', block) = bt_size(Heap, block)
     /\ bt_used(Heap', block) = bt_used(Heap, block)
     /\ bt_get_prevfree(Heap', block) # bt_get_prevfree(Heap, block)
          => \E i \in DOMAIN after :
               /\ i > 1 /\ after[i] = block
               /\ \/ after[i - 1] \notin Range(Blocks(Heap))
                  \/ mem'[after[i - 1]] # mem[after[i - 1]]

\* The call of this step is a call of the allocator whose argument is not q.
CallOnAnother(q) ==
  \/ call'.op \in {"malloc", "calloc", "calloc_overflow"}
  \/ call'.op = "free" /\ ~Free(q)
  \/ call'.op = "realloc"
       /\ ~\E n \in Sizes, dir \in CopyDirs : Realloc(q, n, dir)

\* C20: malloc, calloc, free(p) and realloc(p, n) write no payload byte of
\* an allocated block other than p's and leave its size and USED bit; they
\* change its PREVFREE bit only when it follows a block they rewrote.
C20_OtherBlocksUntouched ==
  [][status' = "run" =>
       \A q \in Ptrs : CallOnAnother(q) => LeftAlone(q)]_vars

====
